---- MODULE Spec2Model ----
(***************************************************************************)
(* InventorySys: the relational store (products, stock_transactions,       *)
(* profiles with their row-level-security policies and the generated       *)
(* status column) and the browser clients that write to it through the     *)
(* product form, the product list, the users list and the stock form.      *)
(*                                                                         *)
(* One client session per user.  A step of the model is either one local   *)
(* event handler up to its first await, or the store processing one        *)
(* request together with the handler code that runs on its response.       *)
(* Columns that no modelled operation reads (name, sku, price, notes,      *)
(* description, timestamps) are left out of the rows.                      *)
(***************************************************************************)
EXTENDS Integers, Sequences, FiniteSets, TLC

\* ------------------------------------------------------------------ bounds
Users == {"u1", "u2"}

MaxProducts == 1

MaxQty == 5

MaxCalls == 2

MaxSeqCalls == 3

\* Of the five sample categories the migration inserts, the model keeps one.
SampleCategories == 1

\* Category ids the store hands out, the sample included.
MaxCategories == 2

\* Quantities classified in pairs: 0..MaxClassify.
MaxClassify == 9

\* --------------------------------------------------- numbers typed in forms
\* A form field holds text: a sequence of characters.
Digits == {"0", "1", "2", "3", "4", "5", "6", "7", "8", "9"}

DigitVal(ch) ==
    CASE ch = "0" -> 0 [] ch = "1" -> 1 [] ch = "2" -> 2 [] ch = "3" -> 3
      [] ch = "4" -> 4 [] ch = "5" -> 5 [] ch = "6" -> 6 [] ch = "7" -> 7
      [] ch = "8" -> 8 [] ch = "9" -> 9

\* JavaScript's NaN; every ordered comparison with it is false.
NaN == -1000000

\* Length of the longest run of digits of s that starts at position i.
RECURSIVE DigitRun(_, _)
DigitRun(s, i) ==
    IF i <= Len(s) /\ s[i] \in Digits THEN 1 + DigitRun(s, i + 1) ELSE 0

\* Value of the n digits of s that start at position i.
RECURSIVE DigitsValue(_, _, _)
DigitsValue(s, i, n) ==
    IF n = 0 THEN 0
    ELSE DigitsValue(s, i, n - 1) * 10 + DigitVal(s[i + n - 1])

\* parseInt(text): an optional sign, then the longest prefix of decimal
\* digits; whatever follows the digits is ignored; no digit at all gives NaN.
ParseInt(s) ==
    IF Len(s) >= 1 /\ s[1] = "-"
    THEN IF DigitRun(s, 2) = 0 THEN NaN
         ELSE 0 - DigitsValue(s, 2, DigitRun(s, 2))
    ELSE IF Len(s) >= 1 /\ s[1] = "+"
    THEN IF DigitRun(s, 2) = 0 THEN NaN
         ELSE DigitsValue(s, 2, DigitRun(s, 2))
    ELSE IF DigitRun(s, 1) = 0 THEN NaN
         ELSE DigitsValue(s, 1, DigitRun(s, 1))

\* The texts the model types into quantity fields, each with the number an
\* <input type="number"> reads from it: 0.1e1 is the number 1 and .5e1 is the
\* number 5.  The empty text is no number.
FormTexts ==
    {<<"0">>, <<"1">>, <<"2">>, <<"3">>, <<"5">>, <<"-", "1">>, << >>,
     <<"0", ".", "1", "e", "1">>, <<".", "5", "e", "1">>}

FieldNumber(text) ==
    CASE text = <<"0", ".", "1", "e", "1">> -> 1
      [] text = <<".", "5", "e", "1">> -> 5
      [] text = <<"-", "1">> -> -1
      [] OTHER -> DigitsValue(text, 1, Len(text))

\* Constraint validation of <input type="number" min=minimum required>: the
\* field is filled in and its number is at least the minimum (every number
\* of FormTexts is whole, as the default step of 1 asks).  The form's submit
\* handler runs only when this holds.
ValidNumberInput(text, minimum) ==
    /\ text # << >>
    /\ FieldNumber(text) >= minimum

\* parseInt and the field validation tabulated over FormTexts.
ParsedInt == [t \in FormTexts |-> ParseInt(t)]

FieldAccepts == [t \in FormTexts |-> [m \in {0, 1} |-> ValidNumberInput(t, m)]]

\* a < b as JavaScript evaluates it on numbers.
JsLess(a, b) == a # NaN /\ b # NaN /\ a < b


\* ------------------------------------------------------------------- state
VARIABLES
    profiles,       \* table profiles: user id -> [role, is_active]
    products,       \* table products: product id -> [quantity, status]
    nextProductId,  \* ids handed out so far (gen_random_uuid: never reused)
    ledger,         \* table stock_transactions: set of rows
    nextTxId,       \* ledger ids handed out so far
    stockProducts,  \* StockTransactions.products of each client: id -> quantity
    loadPending,    \* a loadProducts() of the stock page is in flight
    modal,          \* "closed" | "open": StockTransactions.modalOpen
    pc,             \* where handleSubmit of the stock form stands
    req,            \* what the running handleSubmit captured
    loading,        \* StockModal.loading
    error,          \* StockModal.error
    created,        \* history: quantity each product was created with
    submits,        \* history: how many times handleSubmit has been called
    accounts,       \* auth.users: user id -> raw_user_meta_data
    categories,     \* table categories: category id -> name
    nextCategoryId, \* category ids handed out so far
    productCategory,\* column products.category_id: product id -> category id
    productError,   \* ProductModal.error of each client
    classify,       \* a pair of quantities and the status of each
    auth,           \* what useAuth() gives each client: loading, user, role
    location,       \* useLocation(): the path of each client
    view,           \* what App renders for each client
    usersPending,   \* a loadUsers() of the Users page is in flight
    productsPending,\* a loadProducts() of the Products page is in flight
    alert           \* the alert the last handler of a list page raised

storeVars == <<profiles, products, nextProductId, ledger, nextTxId>>

stockVars == <<stockProducts, loadPending, modal, pc, req, loading, error>>

histVars == <<created, submits>>

accessVars ==
    <<accounts, categories, nextCategoryId, productCategory, productError>>

routeVars == <<auth, location, view>>

viewVars == <<routeVars, usersPending, productsPending, alert>>

vars == <<storeVars, stockVars, histVars, accessVars, classify, viewVars>>

Roles == {"admin", "staff"}

Directions == {"IN", "OUT"}

\* No quantity: the product is not in the store.
NoQty == -1

\* The sample categories of the migration, in the order it inserts them.
SampleCategoryNames ==
    <<"Electronics", "Furniture", "Stationery", "Hardware", "Consumables">>

\* category_id null.
NoCategory == 0

\* A JSON null or an absent key of raw_user_meta_data.
Null == "null"

\* No quantities are being classified.
NoClassify == [q1 |-> NoQty, q2 |-> NoQty, s1 |-> "", s2 |-> ""]

\* No alert was raised.
NoAlert == ""

\* req of a client with no submit running.
NoReq == [product_id |-> 0, type |-> "IN", quantity |-> 0, current |-> NoQty]

\* ------------------------------------------------------------- the store
LowStockBelow == 5

\* The low-stock bound taken inclusively.
GeneratedStatusInclusive(quantity) ==
    IF quantity = 0 THEN "out_of_stock"
    ELSE IF quantity <= LowStockBelow THEN "low_stock"
    ELSE "in_stock"

\* The comparison with the low-stock bound turned round.
GeneratedStatusReversed(quantity) ==
    IF quantity = 0 THEN "out_of_stock"
    ELSE IF quantity > LowStockBelow THEN "low_stock"
    ELSE "in_stock"

\* products.status GENERATED ALWAYS AS (CASE ...) STORED
GeneratedStatus(quantity) ==
    IF quantity = 0 THEN "out_of_stock"
    ELSE IF quantity < LowStockBelow THEN "low_stock"
    ELSE "in_stock"

\* A products row as the store keeps it: status is computed from quantity on
\* every insert and update and cannot be written.
ProductRow(quantity) ==
    [quantity |-> quantity, status |-> GeneratedStatus(quantity)]

\* The policy's EXISTS without its role or is_active condition.
CallerHasProfile(u) == u \in DOMAIN profiles

\* EXISTS (SELECT 1 FROM profiles WHERE id = auth.uid() AND is_active = true)
CallerIsActive(u) == u \in DOMAIN profiles /\ profiles[u].is_active

\* EXISTS (SELECT 1 FROM profiles WHERE id = auth.uid() AND role = 'admin')
CallerIsAdmin(u) == u \in DOMAIN profiles /\ profiles[u].role = "admin"

\* Row-level security of UPDATE on profiles: the two permissive policies,
\* "Users can update own profile" and "Admins can update any profile".
MayUpdateProfile(caller, id) == caller = id \/ CallerIsAdmin(caller)

\* The quantity column is integer NOT NULL; NaN travels as JSON null.
StorableQuantity(q) == q # NaN

StoredQuantity(p) == IF p \in DOMAIN products THEN products[p].quantity ELSE NoQty

LedgerOf(p) == {r \in ledger : r.product_id = p}

\* --------------------------------------------------------------------- App
\* The paths of the menu, of the sign-in pages, the root, and one path no
\* case of the router names.
Paths ==
    {"/", "/dashboard", "/products", "/categories", "/stock", "/users",
     "/login", "/register", "/reports"}

\* What useAuth() can hand to a component: the session is still loading or
\* not, a user is present or not, and profile?.role.
AuthStates ==
    [loading : BOOLEAN, user : BOOLEAN, role : Roles \cup {Null}]

\* No session: loading has finished and there is no user and no profile.
NoSession == [loading |-> FALSE, user |-> FALSE, role |-> Null]

\* The session of a user whose profile says role.
SignedIn(role) == [loading |-> FALSE, user |-> TRUE, role |-> role]

\* The router with the cases of /stock and /users exchanged.
PageOfSwapped(path) ==
    CASE path = "/dashboard" -> "Dashboard"
      [] path = "/products" -> "Products"
      [] path = "/categories" -> "Categories"
      [] path = "/stock" -> "Users"
      [] path = "/users" -> "StockTransactions"
      [] OTHER -> "Dashboard"

\* switch (location) of App: the page put inside Layout.
PageOf(path) ==
    CASE path = "/dashboard" -> "Dashboard"
      [] path = "/products" -> "Products"
      [] path = "/categories" -> "Categories"
      [] path = "/stock" -> "StockTransactions"
      [] path = "/users" -> "Users"
      [] OTHER -> "Dashboard"

\* Without a user every path gives the sign-in page.
SignInPageAlwaysLogin(path) == "Login"

\* if (!user): Register for /register, Login for every other path.
SignInPage(path) == IF path = "/register" THEN "Register" ELSE "Login"

\* What App returns for a session and a path.
AppView(a, path) ==
    IF a.loading THEN "Loading"
    ELSE IF ~a.user THEN SignInPage(path)
    ELSE PageOf(path)

\* Layout.menuItems: the paths of the navigation menu.
MenuItems(a) ==
    {"/dashboard", "/products", "/categories", "/stock"}
        \cup (IF a.role = "admin" THEN {"/users"} ELSE {})

\* Users renders its list, and with it the role and status controls, only
\* for an admin profile.
UsersAlwaysShown(a) == TRUE

\* if (profile?.role !== 'admin') of Users, in the effect and in the render.
UsersShown(a) == a.role = "admin"

\* What the Users page renders below the loading state.
UsersRender(a) == IF UsersShown(a) THEN "UserList" ELSE "AccessDenied"

\* {modalOpen && user && <StockModal userId={user.id} .../>}
FormRendered(c) == modal[c] = "open" /\ auth[c].user

\* ------------------------------------------------------------------- Init
\* The migration creates empty products and stock_transactions tables.  Both
\* users have signed up (handle_new_user made them active staff) and the
\* operator has promoted the first one to admin.  Each user is signed in
\* and has come to the stock page by way of the other pages: the product
\* list of the stock page starts as [] and its mount effect has called
\* loadProducts(); the first fetch of the Products page, and of the Users
\* page of the admin, has not been answered yet.
InitProgram ==
    /\ accounts = [u \in Users |-> [name |-> Null, role |-> Null]]
    /\ profiles = [u \in Users |->
                     [name |-> "User",
                      role |-> IF u = "u1" THEN "admin" ELSE "staff",
                      is_active |-> TRUE]]
    /\ categories = [k \in 1..SampleCategories |-> SampleCategoryNames[k]]
    /\ nextCategoryId = SampleCategories + 1
    /\ productCategory = << >>
    /\ productError = [c \in Users |-> ""]
    /\ products = << >>
    /\ nextProductId = 1
    /\ ledger = {}
    /\ nextTxId = 1
    /\ stockProducts = [c \in Users |-> << >>]
    /\ loadPending = [c \in Users |-> TRUE]
    /\ modal = [c \in Users |-> "closed"]
    /\ pc = [c \in Users |-> "idle"]
    /\ req = [c \in Users |-> NoReq]
    /\ loading = [c \in Users |-> FALSE]
    /\ error = [c \in Users |-> ""]
    /\ created = << >>
    /\ submits = 0
    /\ auth = [c \in Users |->
                 SignedIn(IF c = "u1" THEN "admin" ELSE "staff")]
    /\ location = [c \in Users |-> "/stock"]
    /\ view = [c \in Users |-> "StockTransactions"]
    /\ usersPending = [c \in Users |-> c = "u1"]
    /\ productsPending = [c \in Users |-> TRUE]
    /\ alert = [c \in Users |-> NoAlert]

Init == InitProgram /\ classify = NoClassify

\* Ids that some product list may still show: every id handed out so far.
KnownProductIds == 1..(nextProductId - 1)

\* --------------------------------------------------- ProductModal, Products
\* The fallback text of ProductModal's catch block.
ProductSaveFailure == "Failed to save product"

\* Ids that some category list may still show: every id handed out so far.
KnownCategoryIds == 1..(nextCategoryId - 1)

\* products.category_id REFERENCES categories(id): null or an existing id.
CategoryReferable(cat) == cat = NoCategory \/ cat \in DOMAIN categories

\* ProductModal.handleSubmit with product = null: insert the payload.  The
\* text of the quantity field has passed the field's validation (min="0")
\* and parseInt has read a number from it.  The insert is refused by the
\* policy "Staff and admins can insert products" for an inactive caller and
\* by the foreign key for a category that is gone; a refused insert changes
\* no table and the form shows the error.
CreateProduct(c, text, cat) ==
    LET quantity == ParsedInt[text]
        id == nextProductId
    IN  /\ FieldAccepts[text][0]
        /\ nextProductId <= MaxProducts
        /\ StorableQuantity(quantity)
        /\ quantity <= MaxQty
        /\ cat \in KnownCategoryIds \cup {NoCategory}
        /\ IF CallerIsActive(c) /\ CategoryReferable(cat)
           THEN /\ products' = [p \in DOMAIN products \cup {id} |->
                                 IF p = id THEN ProductRow(quantity)
                                 ELSE products[p]]
                /\ productCategory' = [p \in DOMAIN products \cup {id} |->
                                         IF p = id THEN cat
                                         ELSE productCategory[p]]
                /\ created' = [p \in DOMAIN created \cup {id} |->
                                 IF p = id THEN quantity ELSE created[p]]
                /\ nextProductId' = nextProductId + 1
                /\ productError' = [productError EXCEPT ![c] = ""]
                /\ productsPending' = [productsPending EXCEPT ![c] = TRUE]
           ELSE /\ productError' = [productError EXCEPT ![c] = ProductSaveFailure]
                /\ UNCHANGED <<products, productCategory, created,
                               nextProductId, productsPending>>
        /\ UNCHANGED <<profiles, ledger, nextTxId, stockVars, submits,
                       accounts, categories, nextCategoryId, classify,
                       routeVars, usersPending, alert>>

\* ProductModal.handleSubmit with a product being edited: update the payload
\* onto the row with that id.  The policy "Staff and admins can update
\* products" hides every row from an inactive caller, so the update then
\* matches no row and reports no error; the same when the row is gone.  An
\* update of a visible row to a category that is gone is refused by the
\* foreign key.
EditProduct(c, p, text, cat) ==
    LET quantity == ParsedInt[text]
        visible == p \in DOMAIN products /\ CallerIsActive(c)
    IN  /\ FieldAccepts[text][0]
        /\ p \in KnownProductIds
        /\ StorableQuantity(quantity)
        /\ quantity <= MaxQty
        /\ cat \in KnownCategoryIds \cup {NoCategory}
        /\ IF visible /\ ~CategoryReferable(cat)
           THEN /\ productError' = [productError EXCEPT ![c] = ProductSaveFailure]
                /\ UNCHANGED <<products, productCategory, productsPending>>
           ELSE /\ products' = IF visible
                               THEN [products EXCEPT ![p] = ProductRow(quantity)]
                               ELSE products
                /\ productCategory' = IF visible
                                      THEN [productCategory EXCEPT ![p] = cat]
                                      ELSE productCategory
                /\ productError' = [productError EXCEPT ![c] = ""]
                /\ productsPending' = [productsPending EXCEPT ![c] = TRUE]
        /\ UNCHANGED <<profiles, nextProductId, ledger, nextTxId, stockVars,
                       histVars, accounts, categories, nextCategoryId, classify,
                       routeVars, usersPending, alert>>

\* Products.handleDelete: delete the row with that id.  The policy "Admins can
\* delete products" hides every row from a caller who is not admin, so the
\* delete then matches no row.  The ledger rows of a deleted product go with
\* it (product_id ... ON DELETE CASCADE).  The store reports no error in
\* either case: no alert is raised and loadProducts() is called.
DeleteProduct(c, p) ==
    /\ p \in KnownProductIds
    /\ p \in DOMAIN products
    /\ IF CallerIsAdmin(c)
       THEN /\ products' = [q \in DOMAIN products \ {p} |-> products[q]]
            /\ productCategory' = [q \in DOMAIN products \ {p} |->
                                     productCategory[q]]
            /\ ledger' = ledger \ LedgerOf(p)
       ELSE UNCHANGED <<products, productCategory, ledger>>
    /\ productsPending' = [productsPending EXCEPT ![c] = TRUE]
    /\ alert' = [alert EXCEPT ![c] = NoAlert]
    /\ UNCHANGED <<profiles, nextProductId, nextTxId, stockVars, histVars,
                   accounts, categories, nextCategoryId, productError, classify,
                   routeVars, usersPending>>

\* ------------------------------------------------------------------- Users
\* Users.toggleUserStatus(userId, currentStatus): the button is disabled on
\* the caller's own row; currentStatus is what the caller's list shows.  An
\* update that matches no row reports no error: loadUsers() is called.
ToggleUserStatus(c, userId, currentStatus) ==
    /\ userId # c
    /\ userId \in DOMAIN profiles
    /\ profiles' = IF MayUpdateProfile(c, userId)
                   THEN [profiles EXCEPT ![userId].is_active = ~currentStatus]
                   ELSE profiles
    /\ usersPending' = [usersPending EXCEPT ![c] = TRUE]
    /\ alert' = [alert EXCEPT ![c] = NoAlert]
    /\ UNCHANGED <<products, nextProductId, ledger, nextTxId, stockVars,
                   histVars, accessVars, classify, routeVars, productsPending>>

\* Users.updateUserRole(userId, newRole): the select is disabled on the
\* caller's own row.
UpdateUserRole(c, userId, newRole) ==
    /\ userId # c
    /\ userId \in DOMAIN profiles
    /\ profiles' = IF MayUpdateProfile(c, userId)
                   THEN [profiles EXCEPT ![userId].role = newRole]
                   ELSE profiles
    /\ usersPending' = [usersPending EXCEPT ![c] = TRUE]
    /\ alert' = [alert EXCEPT ![c] = NoAlert]
    /\ UNCHANGED <<products, nextProductId, ledger, nextTxId, stockVars,
                   histVars, accessVars, classify, routeVars, productsPending>>

\* Everyone who has or may get an account: the two users and a third
\* person who signs up later.
AccountIds == Users \cup {"u3"}

\* COALESCE(value, default)
Coalesce(value, default) == IF value = Null THEN default ELSE value

\* The role taken from the data the sign-up carries.
NewUserRoleFromMeta(meta) == Coalesce(meta.role, "staff")

\* handle_new_user: the role it inserts.
NewUserRole(meta) == "staff"

\* handle_new_user: INSERT INTO profiles (id, name, role) VALUES (NEW.id,
\* COALESCE(NEW.raw_user_meta_data->>'name', 'User'), 'staff'); is_active
\* takes its default.
NewProfile(meta) ==
    [name |-> Coalesce(meta.name, "User"),
     role |-> NewUserRole(meta),
     is_active |-> TRUE]

\* A sign-up: the row inserted into auth.users fires on_auth_user_created in
\* the same transaction, so the account and its profile appear together.  A
\* profile row already holding the id would abort the whole sign-up.
Register(u, meta) ==
    /\ u \notin DOMAIN accounts
    /\ IF u \in DOMAIN profiles
       THEN UNCHANGED <<accounts, profiles>>
       ELSE /\ accounts' = [a \in DOMAIN accounts \cup {u} |->
                              IF a = u THEN meta ELSE accounts[a]]
            /\ profiles' = [a \in DOMAIN profiles \cup {u} |->
                              IF a = u THEN NewProfile(meta) ELSE profiles[a]]
    /\ UNCHANGED <<products, nextProductId, ledger, nextTxId, stockVars,
                   histVars, categories, nextCategoryId, productCategory,
                   productError, classify, viewVars>>

\* The row with one column set as an UPDATE ... SET column = value sets it.
PatchedProfile(row, column, value) ==
    CASE column = "role" -> [row EXCEPT !.role = value]
      [] column = "is_active" -> [row EXCEPT !.is_active = value]
      [] column = "name" -> [row EXCEPT !.name = value]

\* An UPDATE of one column of profiles sent with c's session.  The policies
\* select the rows by id and by the caller's role only: they name no column.
UpdateProfile(c, id, column, value) ==
    /\ c \in DOMAIN accounts
    /\ id \in DOMAIN profiles
    /\ profiles' = IF MayUpdateProfile(c, id)
                   THEN [profiles EXCEPT
                           ![id] = PatchedProfile(profiles[id], column, value)]
                   ELSE profiles
    /\ UNCHANGED <<products, nextProductId, ledger, nextTxId, stockVars,
                   histVars, accessVars, classify, viewVars>>

\* The primary key taken alone: the id holds no profile yet.
ProfileKeyUnreferenced(id) == id \notin DOMAIN profiles

\* profiles.id uuid PRIMARY KEY REFERENCES auth.users(id): an account with
\* that id exists and no profile holds it yet.
ProfileKeyFree(id) == id \in DOMAIN accounts /\ id \notin DOMAIN profiles

\* An INSERT into profiles sent with c's session.  The policy "Admins can
\* insert profiles" admits the row of an admin caller; the key constraints
\* of profiles.id then decide.
InsertProfile(c, id, role) ==
    /\ c \in DOMAIN accounts
    /\ profiles' = IF CallerIsAdmin(c) /\ ProfileKeyFree(id)
                   THEN [a \in DOMAIN profiles \cup {id} |->
                           IF a = id
                           THEN [name |-> "User", role |-> role, is_active |-> TRUE]
                           ELSE profiles[a]]
                   ELSE profiles
    /\ UNCHANGED <<products, nextProductId, ledger, nextTxId, stockVars,
                   histVars, accessVars, classify, viewVars>>

\* A DELETE on profiles sent with c's session.  Row-level security is enabled
\* and no policy is defined FOR DELETE, so the delete sees no row.
DeleteProfile(c, id) ==
    /\ c \in DOMAIN accounts
    /\ id \in DOMAIN profiles
    /\ UNCHANGED vars

\* --------------------------------------------------------------- Categories
\* Names typed into the category form: one a sample category holds, one new.
CategoryNames == {"Electronics", "Tools"}

\* categories.name text UNIQUE: no other row holds the name.
CategoryNameFree(name, self) ==
    \A k \in DOMAIN categories \ {self} : categories[k] # name

\* An INSERT into categories sent with c's session: the policy "Admins can
\* insert categories" refuses the row of a caller who is not admin.
CreateCategory(c, name) ==
    LET id == nextCategoryId
    IN  /\ nextCategoryId <= MaxCategories
        /\ IF CallerIsAdmin(c) /\ CategoryNameFree(name, id)
           THEN /\ categories' = [k \in DOMAIN categories \cup {id} |->
                                    IF k = id THEN name ELSE categories[k]]
                /\ nextCategoryId' = nextCategoryId + 1
           ELSE UNCHANGED <<categories, nextCategoryId>>
        /\ UNCHANGED <<storeVars, stockVars, histVars, accounts,
                       productCategory, productError, classify, viewVars>>

\* An UPDATE of categories.name sent with c's session: the policy "Admins can
\* update categories" hides every row from a caller who is not admin.
UpdateCategory(c, k, name) ==
    /\ k \in KnownCategoryIds
    /\ categories' = IF /\ k \in DOMAIN categories
                        /\ CallerIsAdmin(c)
                        /\ CategoryNameFree(name, k)
                     THEN [categories EXCEPT ![k] = name]
                     ELSE categories
    /\ UNCHANGED <<storeVars, stockVars, histVars, accounts, nextCategoryId,
                   productCategory, productError, classify, viewVars>>

\* The references to category k left as they are.
KeepCategory(column, k) == column

\* category_id ... ON DELETE SET NULL
SetNullCategory(column, k) ==
    [p \in DOMAIN column |-> IF column[p] = k THEN NoCategory ELSE column[p]]

\* Categories.handleDelete: delete the row with that id.  The policy "Admins
\* can delete categories" hides every row from a caller who is not admin.
DeleteCategory(c, k) ==
    /\ k \in KnownCategoryIds
    /\ IF k \in DOMAIN categories /\ CallerIsAdmin(c)
       THEN /\ categories' = [j \in DOMAIN categories \ {k} |-> categories[j]]
            /\ productCategory' = SetNullCategory(productCategory, k)
       ELSE UNCHANGED <<categories, productCategory>>
    /\ UNCHANGED <<storeVars, stockVars, histVars, accounts, nextCategoryId,
                   productError, classify, viewVars>>

\* -------------------------------------------------------- StockTransactions
\* StockTransactions.loadProducts: the store answers the select with the rows
\* it holds at that moment and setProducts keeps them; a failed select is
\* logged and the list the page holds stays as it was.
LoadProducts(c, fault) ==
    /\ loadPending[c]
    /\ loadPending' = [loadPending EXCEPT ![c] = FALSE]
    /\ stockProducts' =
         IF fault THEN stockProducts
         ELSE [stockProducts EXCEPT
                 ![c] = [p \in DOMAIN products |-> products[p].quantity]]
    /\ UNCHANGED <<storeVars, modal, pc, req, loading, error, histVars,
                   accessVars, classify, viewVars>>

\* The "Add Transaction" button: setModalOpen(true) renders a new StockModal.
OpenModal(c) ==
    /\ modal[c] = "closed"
    /\ pc[c] = "idle"
    /\ modal' = [modal EXCEPT ![c] = "open"]
    /\ loading' = [loading EXCEPT ![c] = FALSE]
    /\ error' = [error EXCEPT ![c] = ""]
    /\ UNCHANGED <<storeVars, stockProducts, loadPending, pc, req, histVars,
                   accessVars, classify, viewVars>>

\* StockTransactions.handleModalClose, from the form's Cancel or X button
\* while no submit is running.
CancelModal(c) ==
    /\ modal[c] = "open"
    /\ pc[c] = "idle"
    /\ modal' = [modal EXCEPT ![c] = "closed"]
    /\ loadPending' = [loadPending EXCEPT ![c] = TRUE]
    /\ UNCHANGED <<storeVars, stockProducts, pc, req, loading, error, histVars,
                   accessVars, classify, viewVars>>

\* --------------------------------------------------------------- StockModal
ProductNotFound == "Product not found"

InsufficientStock == "Insufficient stock quantity"

\* No message at all.
EmptyMessage == ""

\* The message of a store error, or the fallback text when the error carries
\* none.
StoreFailure == "Failed to record transaction"

\* The two branches of newQuantity exchanged.
NewQuantitySwapped(type, current, quantity) ==
    IF type = "IN" THEN current - quantity ELSE current + quantity

\* The operands of the subtraction exchanged.
NewQuantityReversed(type, current, quantity) ==
    IF type = "IN" THEN current + quantity ELSE quantity - current

\* The type ignored: every movement adds.
NewQuantityAlwaysAdds(type, current, quantity) == current + quantity

\* newQuantity = type === 'IN' ? product.quantity + quantity
\*                             : product.quantity - quantity
NewQuantity(type, current, quantity) ==
    IF type = "IN" THEN current + quantity ELSE current - quantity

\* The operands of the sufficiency check exchanged.
InsufficientReversed(type, current, quantity) ==
    type = "OUT" /\ JsLess(quantity, current)

\* formData.type === 'OUT' && product.quantity < quantity
Insufficient(type, current, quantity) ==
    type = "OUT" /\ JsLess(current, quantity)

\* Submits that have started and not yet finished.
InFlight == {c \in Users : pc[c] # "idle"}

\* StockModal.handleSubmit up to the first await.  The submit button is
\* disabled while loading; the quantity text has passed the field's
\* validation (min="1"); the product is looked up in the list the page
\* passed to the form, and the OUT check uses the quantity in that list.
Submit(c, p, type, text) ==
    LET quantity == ParsedInt[text]
        found == p \in DOMAIN stockProducts[c]
        current == IF found THEN stockProducts[c][p] ELSE NoQty
        captured == [product_id |-> p, type |-> type, quantity |-> quantity,
                     current |-> current]
    IN  /\ modal[c] = "open"
        /\ pc[c] = "idle"
        /\ ~loading[c]
        /\ FieldAccepts[text][1]
        /\ p \in KnownProductIds
        /\ (found /\ type = "IN" /\ quantity # NaN) => current + quantity <= MaxQty
        /\ submits' = submits + 1
        /\ IF ~found
           THEN /\ error' = [error EXCEPT ![c] = ProductNotFound]
                /\ loading' = [loading EXCEPT ![c] = FALSE]
                /\ UNCHANGED <<pc, req>>
           ELSE IF Insufficient(type, current, quantity)
           THEN /\ error' = [error EXCEPT ![c] = InsufficientStock]
                /\ loading' = [loading EXCEPT ![c] = FALSE]
                /\ UNCHANGED <<pc, req>>
           ELSE /\ error' = [error EXCEPT ![c] = ""]
                /\ loading' = [loading EXCEPT ![c] = TRUE]
                /\ req' = [req EXCEPT ![c] = captured]
                /\ pc' = [pc EXCEPT ![c] = "insert"]
        /\ UNCHANGED <<storeVars, stockProducts, loadPending, modal, created,
                   accessVars, classify, viewVars>>

\* The store processes the insert into stock_transactions and handleSubmit
\* runs on to the next await.  The insert is refused when the request fails
\* on the way, when the policy "Active staff can insert stock transactions"
\* finds the caller inactive, when product_id references no product and when
\* quantity is null.  A refused insert throws: the catch block shows the
\* error and the form stays open.
StoreInsert(c, fault) ==
    LET r == req[c]
        accepted == /\ ~fault
                    /\ CallerIsActive(c)
                    /\ r.product_id \in DOMAIN products
                    /\ StorableQuantity(r.quantity)
    IN  /\ pc[c] = "insert"
        /\ IF accepted
           THEN /\ ledger' = ledger \cup
                    {[id |-> nextTxId, product_id |-> r.product_id,
                      user_id |-> c, quantity |-> r.quantity, type |-> r.type]}
                /\ nextTxId' = nextTxId + 1
                /\ pc' = [pc EXCEPT ![c] = "update"]
                /\ UNCHANGED <<req, loading, error>>
           ELSE /\ error' = [error EXCEPT ![c] = StoreFailure]
                /\ loading' = [loading EXCEPT ![c] = FALSE]
                /\ req' = [req EXCEPT ![c] = NoReq]
                /\ pc' = [pc EXCEPT ![c] = "idle"]
                /\ UNCHANGED <<ledger, nextTxId>>
        /\ UNCHANGED <<profiles, products, nextProductId, stockProducts,
                       loadPending, modal, histVars,
                   accessVars, classify, viewVars>>

\* The store processes the update of products.quantity and handleSubmit runs
\* to its end.  A request that fails on the way throws.  Otherwise the update
\* writes newQuantity onto the row with that id if the caller may see it
\* (policy "Staff and admins can update products") and it still exists, and
\* reports no error either way; onClose() closes the form and the page
\* reloads its lists.
StoreUpdate(c, fault) ==
    LET r == req[c]
        p == r.product_id
        newQuantity == NewQuantity(r.type, r.current, r.quantity)
    IN  /\ pc[c] = "update"
        /\ pc' = [pc EXCEPT ![c] = "idle"]
        /\ loading' = [loading EXCEPT ![c] = FALSE]
        /\ req' = [req EXCEPT ![c] = NoReq]
        /\ IF fault
           THEN /\ error' = [error EXCEPT ![c] = StoreFailure]
                /\ UNCHANGED <<products, modal, loadPending>>
           ELSE /\ products' = IF p \in DOMAIN products /\ CallerIsActive(c)
                               THEN [products EXCEPT ![p] = ProductRow(newQuantity)]
                               ELSE products
                /\ modal' = [modal EXCEPT ![c] = "closed"]
                /\ loadPending' = [loadPending EXCEPT ![c] = TRUE]
                /\ UNCHANGED error
        /\ UNCHANGED <<profiles, nextProductId, ledger, nextTxId, stockProducts,
                       histVars,
                   accessVars, classify, viewVars>>

\* ------------------------------------------------------- pages and session
\* App renders again for client c with session a at path: the view changes
\* with them, and a page that was not shown before is mounted.  The stock
\* page starts with an empty list, the form closed and loadProducts()
\* called; the Products page calls loadProducts(); the effect of the Users
\* page runs on mount and when the profile changes, and calls loadUsers()
\* for an admin profile only.  Taken while no submit of the stock form runs.
Show(c, a, path) ==
    LET v == AppView(a, path)
        mounts(w) == v = w /\ view[c] # w
    IN  /\ pc[c] = "idle"
        /\ auth' = [auth EXCEPT ![c] = a]
        /\ location' = [location EXCEPT ![c] = path]
        /\ view' = [view EXCEPT ![c] = v]
        /\ IF mounts("StockTransactions")
           THEN /\ stockProducts' = [stockProducts EXCEPT ![c] = << >>]
                /\ loadPending' = [loadPending EXCEPT ![c] = TRUE]
                /\ modal' = [modal EXCEPT ![c] = "closed"]
                /\ loading' = [loading EXCEPT ![c] = FALSE]
                /\ error' = [error EXCEPT ![c] = ""]
           ELSE UNCHANGED <<stockProducts, loadPending, modal, loading, error>>
        /\ usersPending' =
             IF v = "Users" /\ UsersShown(a) /\ (mounts("Users") \/ a # auth[c])
             THEN [usersPending EXCEPT ![c] = TRUE]
             ELSE usersPending
        /\ productsPending' =
             IF mounts("Products")
             THEN [productsPending EXCEPT ![c] = TRUE]
             ELSE productsPending
        /\ UNCHANGED <<storeVars, pc, req, histVars, accessVars, classify, alert>>

\* useNavigate()(path), the address bar or the back button: pushState and a
\* popstate event, on which useLocation takes the new pathname.
Navigate(c, path) ==
    /\ path # location[c]
    /\ Show(c, auth[c], path)

\* The provider behind useAuth() hands out a new session state: the session
\* finished loading, a user signed in, the profile was read again, the page
\* was loaded anew.
AuthChange(c, a) ==
    /\ a # auth[c]
    /\ Show(c, a, location[c])

\* Layout.handleSignOut, from the menu of a signed-in user: await signOut(),
\* then navigate('/login').
SignOut(c) ==
    /\ ~auth[c].loading
    /\ auth[c].user
    /\ Show(c, NoSession, "/login")

\* Users.loadUsers is answered: the list is set, or the error is logged.
LoadUsers(c) ==
    /\ usersPending[c]
    /\ usersPending' = [usersPending EXCEPT ![c] = FALSE]
    /\ UNCHANGED <<storeVars, stockVars, histVars, accessVars, classify,
                   routeVars, productsPending, alert>>

\* The status button of a row of the Users page: the rows are rendered only
\* when the page is shown and the profile is an admin's.
UsersRowToggle(c, userId, currentStatus) ==
    /\ view[c] = "Users"
    /\ UsersShown(auth[c])
    /\ ToggleUserStatus(c, userId, currentStatus)

\* The role select of a row of the Users page.
UsersRowRole(c, userId, newRole) ==
    /\ view[c] = "Users"
    /\ UsersShown(auth[c])
    /\ UpdateUserRole(c, userId, newRole)

\* Products.loadProducts is answered: the list is set, or the error is
\* logged.
ProductsLoaded(c) ==
    /\ productsPending[c]
    /\ productsPending' = [productsPending EXCEPT ![c] = FALSE]
    /\ UNCHANGED <<storeVars, stockVars, histVars, accessVars, classify,
                   routeVars, usersPending, alert>>

\* The alert of the catch block of Products.handleDelete.
DeleteFailure == "Failed to delete product"

\* Products.handleDelete when the request fails on the way: the delete comes
\* back with an error, the catch block raises the alert, loadProducts() is
\* not called.
DeleteProductFails(c, p) ==
    /\ p \in KnownProductIds
    /\ p \in DOMAIN products
    /\ alert' = [alert EXCEPT ![c] = DeleteFailure]
    /\ UNCHANGED <<storeVars, stockVars, histVars, accessVars, classify,
                   routeVars, usersPending, productsPending>>

\* -------------------------------------------------------- specifications
\* Texts typed into the quantity field of the product form: 0, 3, 0.1e1 (the
\* number 1, which parseInt reads as 0), .5e1 (the number 5, which parseInt
\* reads as NaN), and -1 and the empty text, which the field does not accept.
ProductQuantityTexts ==
    {<<"0">>, <<"3">>, <<"0", ".", "1", "e", "1">>, <<".", "5", "e", "1">>,
     <<"-", "1">>, << >>}

\* Texts typed into the quantity field of the stock form: 1, 2, and 0, which
\* the field does not accept.
StockQuantityTexts == {<<"1">>, <<"2">>, <<"0">>}

ProductIds == 1..MaxProducts

\* At most limit calls of handleSubmit.
CallBudget(limit) == submits < limit

ProductActions ==
    \/ \E c \in Users, text \in ProductQuantityTexts :
          CreateProduct(c, text, NoCategory)
    \/ \E c \in Users, p \in ProductIds, text \in ProductQuantityTexts :
          EditProduct(c, p, text, NoCategory)
    \/ \E c \in Users, p \in ProductIds : DeleteProduct(c, p)

StockActions ==
    \/ \E c \in Users, fault \in BOOLEAN : LoadProducts(c, fault)
    \/ \E c \in Users : OpenModal(c)
    \/ \E c \in Users : CancelModal(c)
    \/ \E c \in Users, p \in ProductIds, type \in Directions,
          text \in StockQuantityTexts :
          CallBudget(MaxCalls) /\ Submit(c, p, type, text)
    \/ \E c \in Users, fault \in BOOLEAN : StoreInsert(c, fault)
    \/ \E c \in Users, fault \in BOOLEAN : StoreUpdate(c, fault)

\* Any number of users working through the product and stock forms, in any
\* interleaving.
Next == ProductActions \/ StockActions

Spec == Init /\ [][Next]_vars

\* Only recorded movements: products are created and stock is moved, no
\* product is edited or deleted and no request fails on the way.
LedgerProductTexts == {<<"2">>, <<"3">>, <<"-", "1">>}

NextLedger ==
    \/ \E c \in Users, text \in LedgerProductTexts :
          CreateProduct(c, text, NoCategory)
    \/ \E c \in Users : LoadProducts(c, FALSE)
    \/ \E c \in Users : OpenModal(c)
    \/ \E c \in Users : CancelModal(c)
    \/ \E c \in Users, p \in ProductIds, type \in Directions,
          text \in StockQuantityTexts :
          CallBudget(MaxCalls) /\ Submit(c, p, type, text)
    \/ \E c \in Users : StoreInsert(c, FALSE)
    \/ \E c \in Users : StoreUpdate(c, FALSE)

SpecLedger == Init /\ [][NextLedger]_vars

\* One client recording movements one after another: it submits only when
\* the reload started by the previous close has delivered the product list.
SeqUsers == {"u1"}

SeqQuantityTexts == {<<"1">>, <<"2">>, <<"5">>, <<"0">>}

NextSeq ==
    \/ \E c \in SeqUsers, text \in ProductQuantityTexts :
          CreateProduct(c, text, NoCategory)
    \/ \E c \in SeqUsers : LoadProducts(c, FALSE)
    \/ \E c \in SeqUsers : OpenModal(c)
    \/ \E c \in SeqUsers : CancelModal(c)
    \/ \E c \in SeqUsers, p \in ProductIds, type \in Directions,
          text \in SeqQuantityTexts :
          /\ CallBudget(MaxSeqCalls)
          /\ ~loadPending[c]
          /\ Submit(c, p, type, text)
    \/ \E c \in SeqUsers, fault \in BOOLEAN : StoreInsert(c, fault)
    \/ \E c \in SeqUsers, fault \in BOOLEAN : StoreUpdate(c, fault)

SpecSeq == Init /\ [][NextSeq]_vars

\* Accounts, roles and categories: sign-ups, requests on profiles sent with
\* any session, the users list, the categories and the product list.  No
\* stock is moved.
Metas == {[name |-> Null, role |-> Null], [name |-> "Ann", role |-> "admin"]}

AccessQuantityTexts == {<<"3">>}

NextAccess ==
    \/ \E u \in AccountIds, meta \in Metas : Register(u, meta)
    \/ \E c \in AccountIds, id \in AccountIds, r \in Roles :
          UpdateProfile(c, id, "role", r)
    \/ \E c \in AccountIds, id \in AccountIds, b \in BOOLEAN :
          UpdateProfile(c, id, "is_active", b)
    \/ \E c \in Users, id \in AccountIds, b \in BOOLEAN :
          ToggleUserStatus(c, id, b)
    \/ \E c \in Users, id \in AccountIds, r \in Roles : UpdateUserRole(c, id, r)
    \/ \E c \in AccountIds, id \in AccountIds, r \in Roles : InsertProfile(c, id, r)
    \/ \E c \in AccountIds, id \in AccountIds : DeleteProfile(c, id)
    \/ \E c \in Users, name \in CategoryNames : CreateCategory(c, name)
    \/ \E c \in Users, k \in 1..MaxCategories, name \in CategoryNames :
          UpdateCategory(c, k, name)
    \/ \E c \in Users, k \in 1..MaxCategories : DeleteCategory(c, k)
    \/ \E c \in Users, text \in AccessQuantityTexts,
          cat \in 1..MaxCategories : CreateProduct(c, text, cat)
    \/ \E c \in Users, p \in ProductIds : DeleteProduct(c, p)

SpecAccess == Init /\ [][NextAccess]_vars

\* The active flag: the admin enables and disables the other user on the
\* users list while both work with the product form and the other user
\* records movements.
GateClients == {"u2"}

GateProductTexts == {<<"0">>, <<"3">>}

GateStockTexts == {<<"1">>}

NextGate ==
    \/ \E b \in BOOLEAN : ToggleUserStatus("u1", "u2", b)
    \/ \E c \in Users, text \in GateProductTexts :
          CreateProduct(c, text, NoCategory)
    \/ \E c \in Users, p \in ProductIds, text \in GateProductTexts :
          EditProduct(c, p, text, NoCategory)
    \/ \E c \in GateClients : LoadProducts(c, FALSE)
    \/ \E c \in GateClients : OpenModal(c)
    \/ \E c \in GateClients : CancelModal(c)
    \/ \E c \in GateClients, p \in ProductIds, type \in Directions,
          text \in GateStockTexts :
          CallBudget(MaxCalls) /\ Submit(c, p, type, text)
    \/ \E c \in GateClients : StoreInsert(c, FALSE)
    \/ \E c \in GateClients : StoreUpdate(c, FALSE)

SpecGate == Init /\ [][NextGate]_vars

\* The stock form fed with texts of every kind: 1, 0, -1, the empty text,
\* 0.1e1 and .5e1; one client, no request fails on the way.
FormStockTexts ==
    {<<"1">>, <<"0">>, <<"-", "1">>, << >>,
     <<"0", ".", "1", "e", "1">>, <<".", "5", "e", "1">>}

FormProductTexts == {<<"3">>}

NextForm ==
    \/ \E c \in SeqUsers, text \in FormProductTexts :
          CreateProduct(c, text, NoCategory)
    \/ \E c \in SeqUsers : LoadProducts(c, FALSE)
    \/ \E c \in SeqUsers : OpenModal(c)
    \/ \E c \in SeqUsers : CancelModal(c)
    \/ \E c \in SeqUsers, p \in ProductIds, type \in Directions,
          text \in FormStockTexts :
          CallBudget(MaxSeqCalls) /\ Submit(c, p, type, text)
    \/ \E c \in SeqUsers : StoreInsert(c, FALSE)
    \/ \E c \in SeqUsers : StoreUpdate(c, FALSE)

SpecForm == Init /\ [][NextForm]_vars

\* One client with the product list and the stock form, every request of
\* the stock form failing or not: the product may be edited or deleted
\* between the load of the list and the submit.
NextFail ==
    \/ \E c \in SeqUsers, text \in ProductQuantityTexts :
          CreateProduct(c, text, NoCategory)
    \/ \E c \in SeqUsers, p \in ProductIds, text \in ProductQuantityTexts :
          EditProduct(c, p, text, NoCategory)
    \/ \E c \in SeqUsers, p \in ProductIds : DeleteProduct(c, p)
    \/ \E c \in SeqUsers, fault \in BOOLEAN : LoadProducts(c, fault)
    \/ \E c \in SeqUsers : OpenModal(c)
    \/ \E c \in SeqUsers : CancelModal(c)
    \/ \E c \in SeqUsers, p \in ProductIds, type \in Directions,
          text \in StockQuantityTexts :
          CallBudget(MaxSeqCalls) /\ Submit(c, p, type, text)
    \/ \E c \in SeqUsers, fault \in BOOLEAN : StoreInsert(c, fault)
    \/ \E c \in SeqUsers, fault \in BOOLEAN : StoreUpdate(c, fault)

SpecFail == Init /\ [][NextFail]_vars

\* The same client, each request of the stock form being answered in the
\* end: an awaited request either returns or fails.
SpecFailFair ==
    /\ SpecFail
    /\ \A c \in SeqUsers :
          /\ WF_vars(\E fault \in BOOLEAN : StoreInsert(c, fault))
          /\ WF_vars(\E fault \in BOOLEAN : StoreUpdate(c, fault))

\* The generated column computed for two rows: the store is handed a pair of
\* quantities and computes the status of each.
InitClassify ==
    /\ InitProgram
    /\ classify \in [q1 : 0..MaxClassify, q2 : 0..MaxClassify,
                     s1 : {""}, s2 : {""}]

Classify ==
    /\ classify.s1 = ""
    /\ classify.q1 # NoQty
    /\ classify' = [classify EXCEPT !.s1 = GeneratedStatus(classify.q1),
                                    !.s2 = GeneratedStatus(classify.q2)]
    /\ UNCHANGED <<storeVars, stockVars, histVars, accessVars, viewVars>>

NextClassify == Classify

SpecClassify == InitClassify /\ [][NextClassify]_vars

\* The router and the session with the stock form behind them: one client
\* moves between paths, its session comes and goes, and on the stock page
\* it records movements of a product made on the Products page.  No request
\* fails on the way.
AppProductTexts == {<<"3">>}

AppStockTexts == {<<"1">>}

NextApp ==
    \/ \E c \in SeqUsers, path \in Paths : Navigate(c, path)
    \/ \E c \in SeqUsers, a \in AuthStates : AuthChange(c, a)
    \/ \E c \in SeqUsers : SignOut(c)
    \/ \E c \in SeqUsers, text \in AppProductTexts :
          view[c] = "Products" /\ CreateProduct(c, text, NoCategory)
    \/ \E c \in SeqUsers :
          view[c] = "StockTransactions" /\ LoadProducts(c, FALSE)
    \/ \E c \in SeqUsers : view[c] = "StockTransactions" /\ OpenModal(c)
    \/ \E c \in SeqUsers :
          view[c] = "StockTransactions" /\ FormRendered(c) /\ CancelModal(c)
    \/ \E c \in SeqUsers, p \in ProductIds, type \in Directions,
          text \in AppStockTexts :
          /\ CallBudget(MaxCalls)
          /\ view[c] = "StockTransactions"
          /\ FormRendered(c)
          /\ Submit(c, p, type, text)
    \/ \E c \in SeqUsers : StoreInsert(c, FALSE)
    \/ \E c \in SeqUsers : StoreUpdate(c, FALSE)

SpecApp == Init /\ [][NextApp]_vars

\* The Users page: both users move between it and the dashboard, their
\* sessions hand out the profile as it was read at some time (any role, or
\* none yet), a third user signs up, and whoever is shown the list uses the
\* controls of its rows.
UsersPaths == {"/users", "/dashboard"}

NextUsers ==
    \/ \E c \in Users, path \in UsersPaths : Navigate(c, path)
    \/ \E c \in Users, r \in Roles \cup {Null} : AuthChange(c, SignedIn(r))
    \/ \E c \in Users : LoadUsers(c)
    \/ \E meta \in Metas : Register("u3", meta)
    \/ \E c \in Users, id \in AccountIds, b \in BOOLEAN :
          UsersRowToggle(c, id, b)
    \/ \E c \in Users, id \in AccountIds, r \in Roles : UsersRowRole(c, id, r)

SpecUsers == Init /\ [][NextUsers]_vars

\* The Products page of an admin and of a staff user: products are made,
\* edited and deleted, a delete may fail on the way, the admin disables and
\* enables the staff user.
NextProducts ==
    \/ \E c \in Users, text \in GateProductTexts :
          CreateProduct(c, text, NoCategory)
    \/ \E c \in Users, p \in ProductIds, text \in GateProductTexts :
          EditProduct(c, p, text, NoCategory)
    \/ \E c \in Users, p \in ProductIds : DeleteProduct(c, p)
    \/ \E c \in Users, p \in ProductIds : DeleteProductFails(c, p)
    \/ \E c \in Users : ProductsLoaded(c)
    \/ \E b \in BOOLEAN : ToggleUserStatus("u1", "u2", b)

SpecProducts == Init /\ [][NextProducts]_vars

\* ---------------------------------------------------------------- claims
\* The status rule as the specification words it.
SpecStatus(q) ==
    IF q = 0 THEN "out_of_stock"
    ELSE IF 0 < q /\ q < 5 THEN "low_stock"
    ELSE "in_stock"

RECURSIVE SumQuantity(_)
SumQuantity(rows) ==
    IF rows = {} THEN 0
    ELSE LET r == CHOOSE x \in rows : TRUE
         IN  r.quantity + SumQuantity(rows \ {r})

\* C1: in every reachable state every product's status is out_of_stock
\* exactly when its quantity is 0, low_stock exactly when 0 < quantity < 5 and
\* in_stock otherwise, whatever creates, edits and movements came before.
C1_StatusFollowsQuantity ==
    \A p \in DOMAIN products :
        products[p].status = SpecStatus(products[p].quantity)

\* A product created with 3 stands at 5, in_stock, after a recorded movement.
C1_Witness ==
    \E p \in DOMAIN products :
        /\ created[p] = 3
        /\ LedgerOf(p) # {}
        /\ products[p].quantity = 5
        /\ products[p].status = "in_stock"

\* C2: a submit of an OUT whose quantity is greater than the quantity the
\* store holds for a product listed in the form ends with the
\* insufficient-stock error and writes nothing.
C2_OutAboveStockFails ==
    [][\A c \in Users, p \in ProductIds, text \in StockQuantityTexts :
          ( /\ Submit(c, p, "OUT", text)
            /\ p \in DOMAIN stockProducts[c]
            /\ p \in DOMAIN products
            /\ ParsedInt[text] > products[p].quantity )
          => ( /\ error'[c] = InsufficientStock
               /\ pc'[c] = "idle"
               /\ ledger' = ledger
               /\ products' = products )]_vars

\* C3: in every reachable state every product's stored quantity is a
\* non-negative integer.
C3_QuantityNonNegative ==
    \A p \in DOMAIN products : products[p].quantity \in Nat

\* The stock is at 0 with an OUT row in the ledger while the other user's
\* OUT on the same product has passed its check and is about to write.
C3_Witness ==
    \E p \in DOMAIN products, c \in Users :
        /\ products[p].quantity = 0
        /\ \E r \in LedgerOf(p) : r.type = "OUT" /\ r.user_id # c /\ r.quantity >= 1
        /\ pc[c] = "update"
        /\ req[c].product_id = p
        /\ req[c].type = "OUT"
        /\ req[c].quantity >= 1

\* Both users have recorded one OUT on p, these are the only two submits and
\* the only ledger rows of p, both have finished, and together they take
\* more than p was created with.
OverdrawnPair(p, r1, r2) ==
    /\ submits = 2
    /\ InFlight = {}
    /\ LedgerOf(p) = {r1, r2}
    /\ r1.user_id # r2.user_id
    /\ r1.type = "OUT"
    /\ r2.type = "OUT"
    /\ r1.quantity + r2.quantity > created[p]

\* C4 as claimed: once two concurrent OUT requests that together exceed the
\* stock have both passed the check and completed, the stored quantity is
\* below zero.
C4_OverdrawBelowZero ==
    \A p \in DOMAIN products : \A r1, r2 \in LedgerOf(p) :
        OverdrawnPair(p, r1, r2) => products[p].quantity < 0

\* C4 as amended: two concurrent OUT requests that together exceed the stock
\* can both pass the check; once both have completed both ledger rows exist
\* and the stored quantity is the quantity both read minus the amount of one
\* of the two requests, which is not below zero.
C4_LastWriterWins ==
    \A p \in DOMAIN products : \A r1, r2 \in LedgerOf(p) :
        OverdrawnPair(p, r1, r2) =>
            /\ products[p].quantity \in
                  {created[p] - r1.quantity, created[p] - r2.quantity}
            /\ products[p].quantity >= 0

\* A product created with 2: OUT 1 and OUT 2 have both completed.
C4_Witness ==
    \E p \in DOMAIN products : \E r1, r2 \in LedgerOf(p) :
        /\ OverdrawnPair(p, r1, r2)
        /\ created[p] = 2
        /\ r1.quantity = 1
        /\ r2.quantity = 2

\* C5: whenever no recordMovement is in flight, each product's stored
\* quantity is its quantity at creation plus its IN rows minus its OUT rows.
C5_QuantityMatchesLedger ==
    InFlight = {} =>
        \A p \in DOMAIN products :
            products[p].quantity =
                created[p]
                + SumQuantity({r \in LedgerOf(p) : r.type = "IN"})
                - SumQuantity({r \in LedgerOf(p) : r.type = "OUT"})

\* C6: a ledger row, once it exists, exists unchanged in every later state.
C6_LedgerAppendOnly ==
    [][\A r \in ledger : r \in ledger']_vars

\* The step changes the stored quantity of the existing product p.
QuantityChanged(p) ==
    /\ p \in DOMAIN products
    /\ p \in DOMAIN products'
    /\ products'[p].quantity # products[p].quantity

\* The step is the product update of c's recordMovement on p, which has
\* inserted its ledger row, and writes the quantity the form read plus or
\* minus the amount.
MovementWrite(c, p) ==
    /\ pc[c] = "update"
    /\ pc'[c] = "idle"
    /\ req[c].product_id = p
    /\ \E r \in ledger :
          /\ r.product_id = p
          /\ r.user_id = c
          /\ r.type = req[c].type
          /\ r.quantity = req[c].quantity
    /\ products'[p].quantity =
          IF req[c].type = "IN" THEN req[c].current + req[c].quantity
          ELSE req[c].current - req[c].quantity

\* C7 as claimed: every step that changes an existing product's quantity is
\* the product update of a recordMovement that has inserted its ledger row.
C7_OnlyLedgerWorkflow ==
    [][\A p \in ProductIds :
          QuantityChanged(p) => \E c \in Users : MovementWrite(c, p)]_vars

\* C7 as amended: every step that changes an existing product's quantity is
\* the product update of a recordMovement that has inserted its ledger row,
\* or a submit of the product edit form.
C7_LedgerWorkflowOrEdit ==
    [][\A p \in ProductIds :
          QuantityChanged(p) =>
              \/ \E c \in Users : MovementWrite(c, p)
              \/ \E c \in Users, text \in ProductQuantityTexts :
                    EditProduct(c, p, text, NoCategory)]_vars

\* A product's quantity differs from the one it was created with although no
\* ledger row was ever inserted.
C7_Witness ==
    \E p \in DOMAIN products :
        /\ products[p].quantity # created[p]
        /\ nextTxId = 1

\* C8: the quantity a submit uses for the check and for the new quantity is
\* the quantity the store holds when the submit is made.
C8_ReadsStoreAtRequestTime ==
    [][\A c \in Users :
          (pc[c] = "idle" /\ pc'[c] = "insert")
          => req'[c].current = StoredQuantity(req'[c].product_id)]_vars

\* C9: with one client whose list is re-fetched between movements, a
\* successful IN of q raises the stored quantity by q, a successful OUT of q
\* lowers it by q, the status follows the new quantity, and an OUT of more
\* than the stored quantity fails and changes nothing.
C9_SequentialMovements ==
    [][\A c \in Users :
          /\ (pc[c] = "update" /\ modal'[c] = "closed") =>
                LET r == req[c]
                    p == r.product_id
                IN  /\ p \in DOMAIN products'
                    /\ products'[p].quantity =
                          IF r.type = "IN"
                          THEN products[p].quantity + r.quantity
                          ELSE products[p].quantity - r.quantity
                    /\ products'[p].status = SpecStatus(products'[p].quantity)
          /\ \A p \in ProductIds, text \in SeqQuantityTexts :
                ( /\ Submit(c, p, "OUT", text)
                  /\ p \in DOMAIN stockProducts[c]
                  /\ p \in DOMAIN products
                  /\ ParsedInt[text] > products[p].quantity )
                => ( /\ error'[c] = InsufficientStock
                     /\ pc'[c] = "idle"
                     /\ ledger' = ledger
                     /\ products' = products )]_vars

\* 3 -IN 2-> 5 -OUT 5-> 0 out_of_stock, and a third submit has failed for
\* insufficient stock.
C9_Witness ==
    /\ 1 \in DOMAIN products
    /\ created[1] = 3
    /\ ledger = {[id |-> 1, product_id |-> 1, user_id |-> "u1",
                  quantity |-> 2, type |-> "IN"],
                 [id |-> 2, product_id |-> 1, user_id |-> "u1",
                  quantity |-> 5, type |-> "OUT"]}
    /\ products[1] = [quantity |-> 0, status |-> "out_of_stock"]
    /\ submits = 3
    /\ error["u1"] = InsufficientStock

RoleAndActiveKept ==
    \A id \in DOMAIN profiles :
        /\ id \in DOMAIN profiles'
        /\ profiles'[id].role = profiles[id].role
        /\ profiles'[id].is_active = profiles[id].is_active

\* The step is a request of c that writes role or is_active of a profile.
RoleOrActiveRequest(c) ==
    \E id \in AccountIds :
        \/ \E r \in Roles : UpdateProfile(c, id, "role", r)
        \/ \E b \in BOOLEAN : UpdateProfile(c, id, "is_active", b)
        \/ \E b \in BOOLEAN : c \in Users /\ ToggleUserStatus(c, id, b)
        \/ \E r \in Roles : c \in Users /\ UpdateUserRole(c, id, r)

\* C11: no request of a caller whose profile does not have role admin changes
\* the role or the is_active flag of any profile, the caller's own included.
C11_NonAdminKeepsRoleAndActive ==
    [][\A c \in AccountIds :
          (c \in DOMAIN profiles /\ profiles[c].role # "admin")
          => (RoleOrActiveRequest(c) => RoleAndActiveKept)]_vars

\* The step is some request of the signed-in user c.
RequestBy(c) ==
    \/ RoleOrActiveRequest(c)
    \/ \E name \in CategoryNames : CreateCategory(c, name)
    \/ \E k \in 1..MaxCategories, name \in CategoryNames : UpdateCategory(c, k, name)
    \/ \E k \in 1..MaxCategories : DeleteCategory(c, k)
    \/ \E text \in AccessQuantityTexts, cat \in 1..MaxCategories :
          CreateProduct(c, text, cat)
    \/ \E p \in ProductIds : DeleteProduct(c, p)

\* C12: no request of a caller whose profile has is_active = false changes
\* any profile, category, product or ledger row.
C12_InactiveChangesNothing ==
    [][\A c \in Users :
          (c \in DOMAIN profiles /\ ~profiles[c].is_active)
          => (RequestBy(c) =>
                UNCHANGED <<profiles, categories, products, productCategory,
                            ledger>>)]_vars

\* C13: a product insert, a product update and a ledger insert of a caller
\* whose profile has is_active = false when the store evaluates the request
\* change nothing, the insert of the product being refused with an error; a
\* product insert of a caller whose profile has is_active = true adds the
\* product.
C13_ActiveGatesProductAndLedger ==
    [][\A c \in Users :
          /\ ~profiles[c].is_active =>
                /\ (\E text \in GateProductTexts : CreateProduct(c, text, NoCategory))
                     => /\ UNCHANGED <<products, productCategory, ledger>>
                        /\ productError'[c] # ""
                /\ (\E p \in ProductIds, text \in GateProductTexts :
                       EditProduct(c, p, text, NoCategory))
                     => UNCHANGED <<products, productCategory, ledger>>
                /\ (pc[c] = "insert" /\ pc'[c] # "insert")
                     => /\ UNCHANGED <<products, productCategory, ledger>>
                        /\ error'[c] # ""
          /\ profiles[c].is_active =>
                \A text \in GateProductTexts :
                    CreateProduct(c, text, NoCategory)
                    => /\ nextProductId \notin DOMAIN products
                       /\ nextProductId \in DOMAIN products'
                       /\ products'[nextProductId].quantity = ParsedInt[text]
                       /\ productError'[c] = ""]_vars

\* The disabled user's product insert has been refused and no product exists.
C13_Witness ==
    /\ ~profiles["u2"].is_active
    /\ productError["u2"] = ProductSaveFailure
    /\ products = << >>

\* The step changes the categories or the products.
CatalogChanged ==
    \/ categories' # categories
    \/ products' # products
    \/ productCategory' # productCategory

\* The step is a request of c that needs role admin: a category insert,
\* update or delete, or a product delete.
AdminRequest(c) ==
    \/ \E name \in CategoryNames : CreateCategory(c, name)
    \/ \E k \in 1..MaxCategories, name \in CategoryNames : UpdateCategory(c, k, name)
    \/ \E k \in 1..MaxCategories : DeleteCategory(c, k)
    \/ \E p \in ProductIds : DeleteProduct(c, p)

\* C14: a category insert, update or delete and a product delete of a caller
\* whose profile does not have role admin when the store evaluates the
\* request leave all categories and products unchanged.
C14_AdminGatesCatalog ==
    [][\A c \in Users :
          (AdminRequest(c) /\ CatalogChanged) => profiles[c].role = "admin"]_vars

\* A second category has been created, the sample category and the only
\* product have been deleted, and the second user is still staff.
C14_Witness ==
    /\ DOMAIN categories = {2}
    /\ nextProductId = 2
    /\ DOMAIN products = {}
    /\ profiles["u2"].role = "staff"

C16_RegistrationMakesActiveStaff ==
    [][\A u \in AccountIds :
          (u \notin DOMAIN accounts /\ u \in DOMAIN accounts')
          => /\ u \notin DOMAIN profiles
             /\ DOMAIN profiles' = DOMAIN profiles \cup {u}
             /\ profiles'[u].role = "staff"
             /\ profiles'[u].is_active = TRUE
             /\ \A a \in DOMAIN profiles : profiles'[a] = profiles[a]]_vars

\* The third person signed up with data naming the role admin and has the
\* profile of an active staff user.
C16_Witness ==
    /\ "u3" \in DOMAIN accounts
    /\ accounts["u3"].role = "admin"
    /\ "u3" \in DOMAIN profiles
    /\ profiles["u3"] = [name |-> "Ann", role |-> "staff", is_active |-> TRUE]

\* C17: the step in which a category disappears leaves the set of products
\* and their quantity and status unchanged, sets category_id to null on every
\* product that referenced the category and leaves it on every other.
C17_CategoryDeleteDetaches ==
    [][\A k \in 1..MaxCategories :
          (k \in DOMAIN categories /\ k \notin DOMAIN categories')
          => /\ products' = products
             /\ DOMAIN productCategory' = DOMAIN productCategory
             /\ \A p \in DOMAIN productCategory :
                   productCategory'[p] =
                       IF productCategory[p] = k THEN NoCategory
                       ELSE productCategory[p]]_vars

\* Under SpecAccess every product is created with a category, so a product
\* without one has had its category deleted.
C17_Witness ==
    \E p \in DOMAIN products :
        /\ productCategory[p] = NoCategory
        /\ products[p] = ProductRow(3)
        /\ DOMAIN categories # {}

\* out_of_stock > low_stock > in_stock
Severity(status) ==
    CASE status = "out_of_stock" -> 2
      [] status = "low_stock" -> 1
      [] status = "in_stock" -> 0

\* C18: for all quantities 0 <= q1 <= q2 the status computed for q1 is at
\* least as severe as the status computed for q2.
C18_StatusMonotonic ==
    (classify.s1 # "" /\ 0 <= classify.q1 /\ classify.q1 <= classify.q2)
    => Severity(classify.s1) >= Severity(classify.s2)

\* 4 is low_stock and 5 is in_stock.
C18_Witness ==
    classify = [q1 |-> 4, q2 |-> 5, s1 |-> "low_stock", s2 |-> "in_stock"]

\* C19: every ledger row has quantity >= 1.
C19_LedgerQuantityAtLeastOne ==
    \A r \in ledger : r.quantity >= 1

C23_NextOperationUsesRefetchedData ==
    [][\A c \in Users :
          ( /\ pc[c] = "idle"
            /\ pc'[c] = "insert"
            /\ \E r \in ledger : r.user_id = c )
          => req'[c].current = StoredQuantity(req'[c].product_id)]_vars

\* C24: a submit that ends with an error has performed neither write: when
\* the product update fails, the ledger row this submit inserted is not in
\* the store.
C24_MovementAtomic ==
    [][\A c \in Users :
          ( /\ pc[c] = "update"
            /\ pc'[c] = "idle"
            /\ error'[c] # "" )
          => ~ \E r \in ledger' :
                   /\ r.user_id = c
                   /\ r.product_id = req[c].product_id
                   /\ r.id = nextTxId - 1]_vars

\* C25: within one submit the lookup and the sufficiency check come before
\* any write, the ledger insert comes before the product update, and the
\* update is issued only after an insert without error; when the lookup,
\* the check or the insert fails, no update is issued and the stored
\* quantity is unchanged.
C25_SubmitStepsOrdered ==
    [][\A c \in Users :
          /\ \A p \in ProductIds, type \in Directions, text \in StockQuantityTexts :
                Submit(c, p, type, text)
                => /\ UNCHANGED <<ledger, products>>
                   /\ ( \/ p \notin DOMAIN stockProducts[c]
                        \/ ( /\ type = "OUT"
                             /\ stockProducts[c][p] < FieldNumber(text) ) )
                      => pc'[c] = "idle"
          /\ (pc[c] = "idle" /\ pc'[c] # "idle") => pc'[c] = "insert"
          /\ (pc[c] = "insert" /\ pc'[c] # "insert")
                => /\ products' = products
                   /\ \/ /\ pc'[c] = "idle"
                         /\ error'[c] # ""
                         /\ ledger' = ledger
                      \/ /\ pc'[c] = "update"
                         /\ \E r \in ledger' \ ledger :
                               /\ r.user_id = c
                               /\ r.product_id = req[c].product_id
          /\ (pc'[c] # pc[c] /\ products' # products) => pc[c] = "update"
          /\ (pc'[c] # pc[c] /\ ledger' # ledger) => pc[c] = "insert"]_vars

\* The insert of a submit has been accepted and its update has not been
\* issued yet: the row is in the ledger, the stored quantity is still the
\* one the form read.
C25_Witness ==
    \E c \in Users :
        /\ pc[c] = "update"
        /\ \E r \in ledger : r.user_id = c /\ r.product_id = req[c].product_id
        /\ req[c].product_id \in DOMAIN products
        /\ products[req[c].product_id].quantity = req[c].current
        /\ error[c] = ""

\* C27: two clients hold the same snapshot quantity s of a product and each
\* completes a recordMovement on it.  When the update of the second one (c)
\* is applied, the other one (d) has finished, its ledger row is there and
\* the store holds s plus or minus d's amount; after the step both ledger
\* rows exist and the stored quantity is s plus or minus c's amount alone,
\* which is not what c's movement on top of d's would give.
C27_LostUpdate ==
    [][\A c, d \in Users, p \in ProductIds :
          ( /\ c # d
            /\ pc[c] = "update"
            /\ pc'[c] = "idle"
            /\ req[c].product_id = p
            /\ pc[d] = "idle"
            /\ p \in DOMAIN products
            /\ \E rd \in ledger :
                  /\ rd.user_id = d
                  /\ rd.product_id = p
                  /\ products[p].quantity =
                        IF rd.type = "IN" THEN req[c].current + rd.quantity
                        ELSE req[c].current - rd.quantity )
          => /\ \E rc, rd \in ledger' :
                  /\ rc.user_id = c
                  /\ rc.product_id = p
                  /\ rc.quantity = req[c].quantity
                  /\ rd.user_id = d
                  /\ rd.product_id = p
             /\ products'[p].quantity =
                   IF req[c].type = "IN" THEN req[c].current + req[c].quantity
                   ELSE req[c].current - req[c].quantity
             /\ products'[p].quantity #
                   IF req[c].type = "IN"
                   THEN products[p].quantity + req[c].quantity
                   ELSE products[p].quantity - req[c].quantity]_vars

\* A product created with 3: IN 1 by one user and IN 2 by the other have
\* both completed, both rows are in the ledger, and the store holds 4.
C27_Witness ==
    \E p \in DOMAIN products : \E r1, r2 \in LedgerOf(p) :
        /\ submits = 2
        /\ InFlight = {}
        /\ created[p] = 3
        /\ r1.user_id # r2.user_id
        /\ r1.type = "IN"
        /\ r1.quantity = 1
        /\ r2.type = "IN"
        /\ r2.quantity = 2
        /\ products[p].quantity = 4

C21_RouterTotal ==
    \A c \in Users :
        (~auth[c].loading /\ auth[c].user)
        => /\ view[c] \in {"Dashboard", "Products", "Categories",
                           "StockTransactions", "Users"}
           /\ (location[c] = "/products" => view[c] = "Products")
           /\ (location[c] = "/categories" => view[c] = "Categories")
           /\ (location[c] = "/stock" => view[c] = "StockTransactions")
           /\ (location[c] = "/users" => view[c] = "Users")
           /\ (location[c] \notin {"/products", "/categories", "/stock", "/users"}
                 => view[c] = "Dashboard")

\* A signed-in client has gone to a path the router does not name and sees
\* the Dashboard.
C21_Witness ==
    \E c \in Users :
        /\ ~auth[c].loading
        /\ auth[c].user
        /\ location[c] = "/reports"
        /\ view[c] = "Dashboard"

C26_UnauthorizedDeleteSurfaced ==
    [][\A c \in Users, p \in ProductIds :
          (DeleteProduct(c, p) /\ profiles[c].role # "admin")
          => /\ products' = products
             /\ alert'[c] # NoAlert]_vars

\* C28: through the Users page some profile has role admin in every
\* reachable state.
C28_SomeAdminRemains ==
    \E id \in DOMAIN profiles : profiles[id].role = "admin"

\* The first admin has made the second user an admin and has been made
\* staff by that user in turn, while its own page still shows it the list.
C28_Witness ==
    /\ profiles["u1"].role = "staff"
    /\ profiles["u2"].role = "admin"
    /\ view["u1"] = "Users"
    /\ auth["u1"].role = "admin"

====
